---- MODULE Spec2Model ----
(***************************************************************************)
(* BOPESSampler (qiskit_nature/algorithms/pes_samplers/bopes_sampler.py).  *)
(*                                                                         *)
(* The sampler is modelled as a state machine: the constructor, the entry  *)
(* of sample() up to the first loop iteration, one loop iteration of       *)
(* _run_points (a whole _run_single_point call and the store of its        *)
(* result) and the aggregation at the end of sample().                     *)
(*                                                                         *)
(* Representation choices                                                  *)
(*  - sweep points are small integers (exactly representable floats, so    *)
(*    |p - q| is the Euclidean norm numpy computes for scalar points);     *)
(*  - a Python dict is an insertion-ordered sequence of [k, v] records;    *)
(*  - a container field that is still None is the empty sequence (the code *)
(*    never reads such a field before assigning it);                       *)
(*  - a parameter vector is a record naming where the vector came from;    *)
(*  - self._points, self._energies and self._raw_results are written at    *)
(*    the end of sample() and never read again: they are the fields of the *)
(*    returned result, which is the variable `result`.                     *)
(***************************************************************************)
EXTENDS Integers, Sequences, FiniteSets, TLC

\* ------------------------------------------------------------------ bounds
\* longest points list handed to sample()
MaxLen == 4
\* sweep points are drawn from 1..NumPointValues
NumPointValues == 3
\* sample() calls made on one sampler instance
MaxCalls == 2
\* longest points list of the other sample() calls (see PointLists)
MaxLenRepeat == 2
\* largest explicit num_bootstrap handed to the constructor
MaxNumBootstrap == 3

PointValues == 1..NumPointValues

\* ------------------------------------------------------------ value domains
\* num_bootstrap = None
NoneNB == -1

NumBootstraps == {NoneNB} \cup (1..MaxNumBootstrap)

\* extrapolator argument: None, an Extrapolator that is not a
\* WindowExtrapolator, or a WindowExtrapolator
Extrapolators == {"None", "Extrapolator", "WindowExtrapolator"}

\* kinds of problem.driver: the two supported molecule drivers, a driver of
\* the deprecated base class, and any other driver
Drivers == {"ElectronicStructureMoleculeDriver",
            "VibrationalStructureMoleculeDriver",
            "DeprecatedBaseDriver",
            "OtherDriver"}

\* parameter vectors
NoneIP == [kind |-> "None", call |-> 0, idx |-> 0]
UserIP == [kind |-> "user", call |-> 0, idx |-> 0]
OptimalPoint(call, idx) == [kind |-> "optimal", call |-> call, idx |-> idx]
Extrapolated(call, idx) == [kind |-> "extrapolated", call |-> call, idx |-> idx]

RECURSIVE SeqsUpTo(_, _)
SeqsUpTo(S, n) ==
    IF n = 0 THEN {<<>>}
    ELSE LET shorter == SeqsUpTo(S, n - 1)
         IN shorter \cup {Append(s, x) : s \in {t \in shorter : Len(t) = n - 1}, x \in S}

Min(a, b) == IF a <= b THEN a ELSE b

\* ------------------------------------------------------- ordered dictionary
DictKeys(d) == [j \in 1..Len(d) |-> d[j].k]
DictValues(d) == [j \in 1..Len(d) |-> d[j].v]
DictHas(d, key) == \E j \in 1..Len(d) : d[j].k = key
DictIndex(d, key) == CHOOSE j \in 1..Len(d) : d[j].k = key
DictGet(d, key) == d[DictIndex(d, key)].v
\* d[key] = val: an existing key keeps its position, a new key is appended
DictSet(d, key, val) ==
    IF DictHas(d, key)
    THEN [d EXCEPT ![DictIndex(d, key)] = [k |-> key, v |-> val]]
    ELSE Append(d, [k |-> key, v |-> val])
\* d.pop(key, default): the value popped, and d afterwards
DictPopValue(d, key, default) == IF DictHas(d, key) THEN DictGet(d, key) ELSE default
DictPop(d, key) == SelectSeq(d, LAMBDA e : e.k # key)

VARIABLES
    pc,                 \* control state of the sampler
    args,               \* the constructor arguments
    num_bootstrap,      \* self._num_bootstrap
    window,             \* self._extrapolator.window as written by the sampler
    solver,             \* self._solver: which object it refers to
    solver_initial_point, \* self._solver.initial_point
    initial_point,      \* self._initial_point
    problem,            \* self._problem / self._driver
    perturbations,      \* self._driver.molecule.perturbations
    second_q_ops,       \* the operators of the problem, as handed out last and
                        \* as prepare_problem left them
    points,             \* the points argument of the running sample() call
    i,                  \* loop index of _run_points (0-based, as enumerate)
    raw_results,        \* the local raw_results of _run_points
    points_optparams,   \* self._points_optparams
    result,             \* what the running / last sample() call returned
    err,                \* the exception that ended the constructor or the call
    calls,              \* sample() calls started so far
    ws,                 \* the warm-start decision taken for the current point
    stale,              \* did the history hold entries when this call began
    clobbered,          \* did the solver's initial point hold a warm-start
                        \* vector when this call began
    log                 \* the sampler's calls on its collaborators, this call

vars == <<pc, args, num_bootstrap, window, solver, solver_initial_point,
          initial_point, problem, perturbations, second_q_ops, points, i,
          raw_results, points_optparams, result, err, calls, ws, stale,
          clobbered, log>>

\* ------------------------------------------------------------- constructor
\* the default number of bootstrapping points (line 120)
DefaultNumBootstrap == 2
\* the smallest num_bootstrap the constructor accepts (line 121)
MinNumBootstrap == 2

\* the constructor's configurations: the solving capability (a
\* GroundStateSolver wrapping a solver, or a MinimumEigensolverFactory),
\* whether the solver it wraps / produces is a VariationalAlgorithm, and the
\* other arguments (the converter is an argument of the factory path only)
Args == {a \in [gss : {"GroundStateSolver", "MinimumEigensolverFactory"},
                variational : BOOLEAN,
                bootstrap : BOOLEAN,
                num_bootstrap : NumBootstraps,
                extrapolator : Extrapolators,
                qubit_converter : BOOLEAN] :
            a.gss = "GroundStateSolver" => ~a.qubit_converter}

\* the initial point the caller configured the solver with: a variational
\* solver carries one, any other solver has none
ConfiguredIP(variational) == IF variational THEN UserIP ELSE NoneIP

\* lines 117-132: does __init__ raise QiskitNatureError
CtorRaises(nb, extrapolator) ==
    IF extrapolator # "None"
    THEN IF nb = NoneNB
         THEN FALSE
         ELSE IF nb >= MinNumBootstrap
              THEN extrapolator # "WindowExtrapolator"
              ELSE TRUE
    ELSE FALSE

\* CtorNumBootstrap without the default of line 120
CtorNumBootstrapNoDefault(nb, extrapolator) == nb

\* lines 109, 120, 127: self._num_bootstrap after a successful __init__
CtorNumBootstrap(nb, extrapolator) ==
    IF extrapolator # "None" /\ nb = NoneNB THEN DefaultNumBootstrap ELSE nb

\* line 128: the window the constructor writes into the extrapolator
\* (NoneNB: the constructor leaves it alone)
CtorWindow(nb, extrapolator) ==
    IF extrapolator # "None" /\ nb # NoneNB /\ nb >= MinNumBootstrap
    THEN nb ELSE NoneNB

\* lines 111-113: self._solver after __init__
CtorSolver(gss) == IF gss = "GroundStateSolver" THEN "gss.solver" ELSE "None"

\* CtorInitialPoint without the save of line 139
CtorInitialPointUnsaved(gss, variational, solver_initial) == NoneIP

\* lines 114, 134-139: self._initial_point after __init__
CtorInitialPoint(gss, variational, solver_initial) ==
    IF gss = "GroundStateSolver" /\ variational THEN solver_initial ELSE NoneIP

NoProblem == [driver |-> "None", molecule |-> FALSE, ops |-> "list", main |-> "op", shared |-> FALSE]
NoResult == [returned |-> FALSE, points |-> <<>>, energies |-> <<>>, raw_results |-> <<>>]
NoWarmStart == [mode |-> "none", idx |-> 0, n |-> 0, point |-> 0, value |-> NoneIP,
                history |-> <<>>]

Init ==
    /\ pc = "new"
    /\ args \in Args
    /\ num_bootstrap = NoneNB
    /\ window = NoneNB
    /\ solver = "None"
    /\ solver_initial_point = NoneIP
    /\ initial_point = NoneIP
    /\ problem = NoProblem
    /\ perturbations = <<>>
    /\ second_q_ops = <<>>
    /\ points = <<>>
    /\ i = 0
    /\ raw_results = <<>>
    /\ points_optparams = <<>>
    /\ result = NoResult
    /\ err = "None"
    /\ calls = 0
    /\ ws = NoWarmStart
    /\ stale = FALSE
    /\ clobbered = FALSE
    /\ log = <<>>

\* BOPESSampler.__init__
Construct ==
    /\ pc = "new"
    /\ IF CtorRaises(args.num_bootstrap, args.extrapolator)
       THEN /\ pc' = "ctor_failed"
            /\ err' = "QiskitNatureError"
            /\ UNCHANGED <<num_bootstrap, window, solver, solver_initial_point,
                           initial_point>>
       ELSE /\ pc' = "idle"
            /\ err' = "None"
            /\ num_bootstrap' = CtorNumBootstrap(args.num_bootstrap, args.extrapolator)
            /\ window' = CtorWindow(args.num_bootstrap, args.extrapolator)
            /\ solver' = CtorSolver(args.gss)
            /\ solver_initial_point' =
                   IF args.gss = "GroundStateSolver"
                   THEN ConfiguredIP(args.variational) ELSE NoneIP
            /\ initial_point' = CtorInitialPoint(args.gss, args.variational,
                                                 ConfiguredIP(args.variational))
    /\ UNCHANGED <<args, problem, perturbations, second_q_ops, points, i, raw_results,
                   points_optparams, result, calls, ws, stale, clobbered, log>>

\* --------------------------------------------------------- prepare_problem
\* problem.main_property_name, and the names of the other operators of a
\* mapping
MainPropertyName == "ElectronicEnergy"
AuxNames == <<"ParticleNumber", "AngularMomentum">>

\* the operators a problem builds: a list, whose first element is the main
\* operator, or a mapping from property names to operators, holding the
\* main entry (an operator or None) between two others, or no main entry
BuildSecondQOps(prob) ==
    IF prob.ops = "list"
    THEN <<[k |-> "0", v |-> "op"], [k |-> "1", v |-> "op"]>>
    ELSE <<[k |-> AuxNames[1], v |-> "op"]>>
         \o (IF prob.main = "absent" THEN <<>>
             ELSE <<[k |-> MainPropertyName, v |-> prob.main]>>)
         \o <<[k |-> AuxNames[2], v |-> "None"]>>

\* line 50: what problem.second_q_ops() returns now: a problem either hands
\* out one mapping object on every call (shared), as the call before left
\* it, or builds a new collection each time
SecondQOps(prob, held) == IF prob.shared THEN held ELSE BuildSecondQOps(prob)

\* PrepareRaises asking only whether the mapping has the key
PrepareRaisesIfMissing(ops, q, name) == ops = "dict" /\ ~DictHas(q, name)

\* lines 51-60: prepare_problem raises ValueError
PrepareRaises(ops, q, name) ==
    ops = "dict" /\ DictPopValue(q, name, "None") = "None"

\* line 55: second_q_ops.pop(name, None) removes the main entry of a mapping
PrepareOpsAfter(ops, q, name) == IF ops = "dict" THEN DictPop(q, name) ELSE q

\* ------------------------------------------------------------------ sample
SupportedDrivers == {"ElectronicStructureMoleculeDriver",
                     "VibrationalStructureMoleculeDriver"}

\* DriverRaises without the check of lines 166-171
DriverNeverRaises(driver) == FALSE

\* lines 158-171 and 233-246: the driver check raises QiskitNatureError
DriverRaises(driver) ==
    IF driver = "DeprecatedBaseDriver" THEN FALSE ELSE driver \notin SupportedDrivers

\* IsVariational taking every solver for a VariationalAlgorithm
AnySolverVariational(slv, variational) == slv # "None"

\* isinstance(self._solver, VariationalAlgorithm)
IsVariational(slv, variational) == slv # "None" /\ variational

\* ConverterMissing without the check of lines 178-180
ConverterNeverMissing(gss, qubit_converter) == FALSE

\* lines 177-178: a factory was given and self._qubit_converter is None
ConverterMissing(gss, qubit_converter) ==
    gss = "MinimumEigensolverFactory" /\ ~qubit_converter

\* lines 158-181: the exception sample() raises before _run_points, if any
SampleEntryError(gss, qubit_converter, prob, ops_now) ==
    IF DriverRaises(prob.driver) THEN "QiskitNatureError: driver"
    ELSE IF ~prob.molecule THEN "QiskitNatureError: molecule"
    ELSE IF gss = "MinimumEigensolverFactory"
         THEN IF ConverterMissing(gss, qubit_converter)
              THEN "QiskitNatureError: qubit converter"
              ELSE IF PrepareRaises(prob.ops, ops_now, MainPropertyName) THEN "ValueError"
              ELSE "None"
    ELSE "None"

\* the problems handed to sample(): every driver kind with and without a
\* molecule, yielding a list of operators, and, on the factory path (the only
\* one where the sampler asks the problem for its operators), problems
\* yielding a mapping: with its main entry, handed out as a new mapping or
\* as the same mapping object on every call, with a None main entry, and
\* without a main entry
DriverProblems ==
    {[driver |-> d, molecule |-> m, ops |-> "list", main |-> "op", shared |-> FALSE] :
        d \in Drivers, m \in BOOLEAN}

MappingProblems ==
    {[driver |-> "ElectronicStructureMoleculeDriver", molecule |-> TRUE,
      ops |-> "dict", main |-> o[1], shared |-> o[2]] :
        o \in {<<"op", FALSE>>, <<"op", TRUE>>, <<"None", FALSE>>, <<"absent", FALSE>>}}

Problems(gss) ==
    DriverProblems \cup (IF gss = "MinimumEigensolverFactory" THEN MappingProblems ELSE {})

\* the points lists handed to sample() call number `call` with problem
\* `prob` on a sampler constructed from `a`: lists up to MaxLen for the
\* first sweep of a sampler with a variational solver (where what a point
\* gets may depend on the points before it) over a problem with an ElectronicStructureMoleculeDriver and a list of
\* operators; lists up to MaxLenRepeat otherwise
PointLists(call, prob, a) ==
    SeqsUpTo(PointValues,
             IF /\ call = 1
                /\ a.variational
                /\ prob.driver = "ElectronicStructureMoleculeDriver"
                /\ prob.ops = "list"
             THEN MaxLen ELSE MaxLenRepeat)

Event(op, arg) == [op |-> op, arg |-> arg]

\* the initial point of the solver get_solver() hands back: the factory
\* returns either the solver object it returned before (whose initial point
\* is whatever was last written) or a newly configured one
GetSolverInitialPoint(fresh, slv, current_ip, configured_ip) ==
    IF fresh \/ slv = "None" THEN configured_ip ELSE current_ip

\* ResetHistory without the reset of line 208
KeepHistory(variational, history) == history

\* lines 207-208: _run_points starts a variational sweep with an empty history
ResetHistory(variational, history) == IF variational THEN <<>> ELSE history

\* sample(), lines 155-185, and _run_points up to its loop, lines 206-209.
\* Every call is handed a problem of its own, whose molecule carries no
\* perturbations yet; the locals of the call before (points, i, raw_results)
\* and what it returned are gone. On the factory path get_solver() runs at
\* line 182, before line 209 overwrites the initial point of the solver it
\* returned.
Sample ==
    /\ pc \in {"idle", "done", "failed"}
    /\ calls < MaxCalls
    /\ \E prob \in Problems(args.gss) :
        LET factory == args.gss = "MinimumEigensolverFactory"
            ops_now == BuildSecondQOps(prob)
            e == SampleEntryError(args.gss, args.qubit_converter, prob, ops_now)
            prepared == factory /\ e \in {"None", "ValueError"}
            slv == IF factory THEN "factory.solver" ELSE solver
            variational == IsVariational(slv, args.variational)
        IN  /\ problem' = prob
            /\ calls' = calls + 1
            /\ perturbations' = <<>>
            /\ second_q_ops' = IF prepared
                               THEN PrepareOpsAfter(prob.ops, ops_now, MainPropertyName)
                               ELSE ops_now
            /\ result' = NoResult
            /\ ws' = NoWarmStart
            /\ stale' = (points_optparams # <<>>)
            /\ clobbered' = (solver_initial_point.kind \in {"optimal", "extrapolated"})
            /\ i' = 0
            /\ raw_results' = <<>>
            /\ err' = e
            /\ IF e # "None"
               THEN /\ pc' = "failed"
                    /\ points' = <<>>
                    /\ log' = IF prepared THEN <<Event("prepare_problem", 0)>> ELSE <<>>
                    /\ UNCHANGED <<solver, solver_initial_point, points_optparams>>
               ELSE /\ pc' = "loop"
                    /\ points' \in PointLists(calls + 1, prob, args)
                    /\ solver' = slv
                    /\ points_optparams' = ResetHistory(variational, points_optparams)
                    /\ \E fresh \in (IF factory /\ args.variational THEN BOOLEAN ELSE {FALSE}) :
                         solver_initial_point' =
                             IF variational THEN initial_point
                             ELSE IF factory
                                  THEN GetSolverInitialPoint(fresh, solver, solver_initial_point,
                                                             ConfiguredIP(args.variational))
                                  ELSE solver_initial_point
                    /\ log' = (IF factory
                               THEN <<Event("prepare_problem", 0), Event("get_solver", 0)>>
                               ELSE <<>>)
                              \o (IF variational
                                  THEN <<Event("set_initial_point", 0)>>
                                  ELSE <<>>)
    /\ UNCHANGED <<args, num_bootstrap, window, initial_point>>

\* -------------------------------------------------------------- warm start
Abs(x) == IF x < 0 THEN -x ELSE x

\* ArgMinDistance taking the most recently evaluated point instead
MostRecentIndex(point, prev_points) == Len(prev_points)

\* ArgMinDistance taking the last position holding the smallest distance
ArgMinDistanceLast(point, prev_points) ==
    CHOOSE j \in 1..Len(prev_points) :
        /\ \A m \in 1..Len(prev_points) :
               Abs(point - prev_points[j]) <= Abs(point - prev_points[m])
        /\ \A m \in (j + 1)..Len(prev_points) :
               Abs(point - prev_points[m]) > Abs(point - prev_points[j])

\* lines 265-267: np.argmin(np.linalg.norm(point - prev_points, axis=1)),
\* the first position (1-based here) holding the smallest distance
ArgMinDistance(point, prev_points) ==
    CHOOSE j \in 1..Len(prev_points) :
        /\ \A m \in 1..Len(prev_points) :
               Abs(point - prev_points[j]) <= Abs(point - prev_points[m])
        /\ \A m \in 1..(j - 1) :
               Abs(point - prev_points[m]) > Abs(point - prev_points[j])

\* lines 257-260: the number of points to bootstrap
NBoot(extrapolator, nb, n_pp) == IF extrapolator = "None" THEN n_pp ELSE nb

\* WarmStartMode with n_pp < n_boot for the test of line 264
WarmStartModeStrict(n_pp, n_boot) ==
    IF n_pp = 0 THEN "empty"
    ELSE IF n_pp < n_boot THEN "nearest" ELSE "extrapolate"

\* lines 263, 264, 270: which branch sets the initial point
WarmStartMode(n_pp, n_boot) ==
    IF n_pp = 0 THEN "empty"
    ELSE IF n_pp <= n_boot THEN "nearest" ELSE "extrapolate"

\* Bootstraps paying no attention to the bootstrap flag
BootstrapsWhateverFlag(variational, bootstrap) == variational

\* line 251: isinstance(self._solver, VariationalAlgorithm) and self._bootstrap
Bootstraps(variational, bootstrap) == variational /\ bootstrap

\* lines 251-276: the warm-start decision for `point` given the history:
\* the branch taken, the point's index in the sweep, the size of the history,
\* the initial point chosen (a nearest neighbour's parameters, or what the
\* extrapolator returns for points=[point], param_dict=history) and the
\* history the decision read
WarmStart(variational, bootstrap, extrapolator, nb, history, point, call, idx) ==
    IF ~Bootstraps(variational, bootstrap)
    THEN [mode |-> "off", idx |-> idx, n |-> 0, point |-> point, value |-> NoneIP,
          history |-> history]
    ELSE LET prev_points == DictKeys(history)
             prev_params == DictValues(history)
             n_pp == Len(prev_points)
             mode == WarmStartMode(n_pp, NBoot(extrapolator, nb, n_pp))
         IN  [mode |-> mode,
              idx |-> idx,
              n |-> n_pp,
              point |-> point,
              value |-> IF mode = "nearest"
                        THEN prev_params[ArgMinDistance(point, prev_points)]
                        ELSE IF mode = "extrapolate" THEN Extrapolated(call, idx)
                        ELSE NoneIP,
              history |-> history]

\* does the warm start write self._solver.initial_point (lines 269, 276)
WritesInitialPoint(w) == w.mode \in {"nearest", "extrapolate"}

\* ------------------------------------------------------------------- solve
\* SetPerturbations adding the point to the perturbations already there
AppendPerturbation(current, point) == Append(current, point)

\* line 248: self._driver.molecule.perturbations = [point]
SetPerturbations(current, point) == <<point>>

\* the primary energy of the result of evaluation idx of sample() call
\* `call`: every evaluation returns its own result object
Energy(call, idx) == call * (MaxLen + 2) + idx

\* the EigenstateResult of one evaluation; it also keeps the initial point
\* and the perturbations the solve began with
Result(call, idx, point, variational, start_ip, start_perturbations) ==
    [call |-> call, idx |-> idx, point |-> point,
     energy |-> Energy(call, idx),
     optimal_point |-> IF variational THEN OptimalPoint(call, idx) ELSE NoneIP,
     initial_point |-> start_ip,
     perturbations |-> start_perturbations]

\* RecordHistory keeping the parameters of a point's first evaluation
RecordHistoryKeepFirst(history, variational, point, res) ==
    IF variational /\ ~DictHas(history, point)
    THEN Append(history, [k |-> point, v |-> res.optimal_point])
    ELSE history

\* line 293: self._points_optparams[point] = optimal_params
RecordHistory(history, variational, point, res) ==
    IF variational THEN DictSet(history, point, res.optimal_point) ELSE history

\* StoreResult putting the newest result first
StoreResultFront(raw, point, res) ==
    <<[k |-> point, v |-> res]>> \o SelectSeq(raw, LAMBDA e : e.k # point)

\* StoreResult keeping the first result of a point evaluated again
StoreResultKeepFirst(raw, point, res) ==
    IF DictHas(raw, point) THEN raw ELSE Append(raw, [k |-> point, v |-> res])

\* line 215: raw_results[point] = raw_result
StoreResult(raw, point, res) == DictSet(raw, point, res)

\* LoopDone with the return of line 217 inside the loop
LoopDoneAfterFirst(idx, n) == idx = n \/ idx >= 1

\* lines 212-217: the loop of _run_points ends, and _run_points returns,
\* when every point of the list has been run
LoopDone(idx, n) == idx = n

\* one iteration of the loop of _run_points, lines 212-215: a whole
\* _run_single_point call (lines 233-295: the driver re-check, the geometry
\* update, the warm start, the solve, which may raise, and the history
\* update) and the store of its result
RunSinglePoint ==
    /\ pc = "loop"
    /\ ~LoopDone(i, Len(points))
    /\ i < Len(points)
    /\ \E raises \in BOOLEAN,
          fresh \in (IF args.gss = "MinimumEigensolverFactory" /\ args.variational
                     THEN BOOLEAN ELSE {FALSE}) :
        LET factory == args.gss = "MinimumEigensolverFactory"
            point == points[i + 1]
            w == WarmStart(IsVariational(solver, args.variational), args.bootstrap,
                           args.extrapolator, num_bootstrap, points_optparams,
                           point, calls, i)
            warm_ip == IF WritesInitialPoint(w) THEN w.value ELSE solver_initial_point
            warm_log == <<Event("set_perturbations", point)>>
                        \o (IF w.mode = "extrapolate"
                            THEN <<Event("extrapolate", point)>> ELSE <<>>)
                        \o (IF WritesInitialPoint(w)
                            THEN <<Event("set_initial_point", point)>> ELSE <<>>)
            ops_now == SecondQOps(problem, second_q_ops)
            prepare_raises == factory /\ PrepareRaises(problem.ops, ops_now, MainPropertyName)
            ip == IF factory
                  THEN GetSolverInitialPoint(fresh, solver, warm_ip, ConfiguredIP(args.variational))
                  ELSE warm_ip
            variational == IsVariational(solver, args.variational)
            res == Result(calls, i, point, variational, ip,
                          SetPerturbations(perturbations, point))
        IN  IF DriverRaises(problem.driver)
            THEN /\ pc' = "failed"
                 /\ err' = "QiskitNatureError: driver"
                 /\ UNCHANGED <<perturbations, ws, solver_initial_point, log, second_q_ops,
                                points_optparams, raw_results, i>>
            ELSE /\ perturbations' = SetPerturbations(perturbations, point)
                 /\ ws' = w
                 /\ second_q_ops' = IF factory
                                    THEN PrepareOpsAfter(problem.ops, ops_now, MainPropertyName)
                                    ELSE second_q_ops
                 /\ IF prepare_raises
                    THEN /\ pc' = "failed"
                         /\ err' = "ValueError"
                         /\ solver_initial_point' = warm_ip
                         /\ log' = log \o warm_log \o <<Event("prepare_problem", point)>>
                         /\ UNCHANGED <<points_optparams, raw_results, i>>
                    ELSE /\ solver_initial_point' = ip
                         /\ log' = log \o warm_log
                                       \o (IF factory
                                           THEN <<Event("prepare_problem", point),
                                                  Event("get_solver", point)>>
                                           ELSE <<>>)
                                       \o <<Event("solve", point)>>
                         /\ IF raises
                            THEN /\ pc' = "failed"
                                 /\ err' = "SolveFailure"
                                 /\ UNCHANGED <<points_optparams, raw_results, i>>
                            ELSE /\ pc' = "loop"
                                 /\ err' = "None"
                                 /\ points_optparams' =
                                        RecordHistory(points_optparams, variational, point, res)
                                 /\ raw_results' = StoreResult(raw_results, point, res)
                                 /\ i' = i + 1
    /\ UNCHANGED <<args, num_bootstrap, window, solver, initial_point, problem,
                   points, result, calls, stale, clobbered>>

\* ------------------------------------------------------------- aggregation
\* lines 187-191: the points and the energies of the result table
ResultPoints(raw) == DictKeys(raw)
ResultEnergies(raw) == [j \in 1..Len(raw) |-> raw[j].v.energy]

\* sample(), lines 185-195, once the loop of _run_points has ended
Aggregate ==
    /\ pc = "loop"
    /\ LoopDone(i, Len(points))
    /\ pc' = "done"
    /\ result' = [returned |-> TRUE,
                  points |-> ResultPoints(raw_results),
                  energies |-> ResultEnergies(raw_results),
                  raw_results |-> raw_results]
    /\ UNCHANGED <<args, num_bootstrap, window, solver, solver_initial_point,
                   initial_point, problem, perturbations, second_q_ops, points, i,
                   raw_results, points_optparams, err, calls, ws, stale, clobbered,
                   log>>

Next == Construct \/ Sample \/ RunSinglePoint \/ Aggregate

Spec == Init /\ [][Next]_vars

\* ---------------------------------------------------------------- helpers
Distinct(seq) == \A a, b \in 1..Len(seq) : a # b => seq[a] # seq[b]

Prefix(seq, n) == SubSeq(seq, 1, n)

\* the values of seq in the order of their first occurrence
RECURSIVE FirstOccurrences(_)
FirstOccurrences(seq) ==
    IF seq = <<>> THEN <<>>
    ELSE LET front == FirstOccurrences(Prefix(seq, Len(seq) - 1))
             last == seq[Len(seq)]
         IN IF \E j \in 1..Len(front) : front[j] = last THEN front ELSE Append(front, last)

\* the last position of p in seq
LastIndex(seq, p) ==
    CHOOSE j \in 1..Len(seq) : seq[j] = p /\ \A m \in (j + 1)..Len(seq) : seq[m] # p

CountOps(op) == Cardinality({j \in 1..Len(log) : log[j].op = op})

Logged(op, arg) == \E j \in 1..Len(log) : log[j] = Event(op, arg)

\* value is the parameter vector history stores for a key nearest to point
IsNearest(value, point, history) ==
    \E m \in 1..Len(history) :
        /\ value = history[m].v
        /\ \A j \in 1..Len(history) :
               Abs(point - history[m].k) <= Abs(point - history[j].k)

\* ------------------------------------------------------------------ claims

\* C1 (history reset): every sweep starts its loop with an empty point
\* history and with a solver initial point that is no optimum of an earlier
\* sweep; the first point of a sweep gets no nearest-neighbour or
\* extrapolated guess, and every guess a sweep writes, and every history
\* entry a warm-start decision reads, comes from an evaluation of the same
\* sample() call.
C1_HistoryReset ==
    /\ (pc = "loop" /\ i = 0) =>
           /\ points_optparams = <<>>
           /\ solver_initial_point.kind \in {"None", "user"}
    /\ (ws.mode # "none" /\ ws.idx = 0) => (ws.n = 0 /\ ~WritesInitialPoint(ws))
    /\ ws.mode # "none" =>
           \A j \in 1..Len(ws.history) : ws.history[j].v.call = calls
    /\ WritesInitialPoint(ws) => ws.value.call = calls

\* a second sweep on a sampler whose first sweep left history entries has
\* run its first point without a guess
C1_Witness ==
    /\ calls = 2 /\ stale /\ args.variational /\ args.bootstrap
    /\ pc = "loop" /\ i = 1 /\ ws.mode = "empty"

\* C2 (order preservation): a sample() call on pairwise distinct points
\* returns the points in the order given, and energies[j] is the energy of
\* the result of the evaluation of points[j].
C2_OrderPreservation ==
    (pc = "done" /\ Distinct(points)) =>
        /\ result.returned
        /\ result.points = points
        /\ Len(result.energies) = Len(points)
        /\ Len(result.raw_results) = Len(points)
        /\ \A j \in 1..Len(points) :
               /\ result.raw_results[j].k = points[j]
               /\ result.raw_results[j].v.call = calls
               /\ result.raw_results[j].v.idx = j - 1
               /\ result.raw_results[j].v.point = points[j]
               /\ result.energies[j] = Energy(calls, j - 1)

C2_Witness == pc = "done" /\ result.returned /\ points = <<1, 3, 2>>

\* C3 (duplicate point): the result table of a sample() call has exactly one
\* entry for every point value of the list, holding the result and the
\* energy of the last evaluation of that value; the returned points are the
\* distinct values in the order of their first evaluation.
C3_DuplicatePoint ==
    pc = "done" =>
        /\ result.points = FirstOccurrences(points)
        /\ Len(result.energies) = Len(result.points)
        /\ \A j \in 1..Len(points) :
               Cardinality({m \in 1..Len(result.raw_results) :
                               result.raw_results[m].k = points[j]}) = 1
        /\ \A m \in 1..Len(result.raw_results) :
               LET e == result.raw_results[m]
                   last == LastIndex(points, e.k)
               IN /\ e.v.call = calls
                  /\ e.v.idx = last - 1
                  /\ result.energies[m] = Energy(calls, last - 1)

C3_Witness ==
    /\ pc = "done" /\ points = <<1, 2, 1>>
    /\ Len(result.raw_results) = 2 /\ result.raw_results[1].v.idx = 2

\* C4 (fail-fast on a too-small window): a constructor call with an explicit
\* num_bootstrap below 2 raises, whatever the other arguments.
C4_SmallWindowRejected ==
    (pc # "new" /\ args.num_bootstrap # NoneNB /\ args.num_bootstrap < MinNumBootstrap)
        => pc = "ctor_failed"

\* C5 (fail-fast on a window without a windowing extrapolator): a
\* constructor call with an explicit num_bootstrap >= 2 raises whenever the
\* extrapolator is None or is not a WindowExtrapolator.
C5_WindowNeedsWindowExtrapolator ==
    (/\ pc # "new"
     /\ args.num_bootstrap # NoneNB
     /\ args.num_bootstrap >= MinNumBootstrap
     /\ args.extrapolator # "WindowExtrapolator")
        => pc = "ctor_failed"

\* C6 (nearest neighbour): with a variational solver, bootstrap on and no
\* extrapolator, the guess for a point run on a non-empty history is written
\* to the solver and is the parameter vector the history stores for a key at
\* the smallest distance from the point, whatever the size of the history.
C6_NearestNeighbour ==
    (/\ args.variational /\ args.bootstrap /\ args.extrapolator = "None"
     /\ ws.mode # "none")
        => /\ ws.n = Len(ws.history)
           /\ ws.point = perturbations[1]
           /\ (pc = "loop" =>
                  points_optparams =
                      DictSet(ws.history, ws.point, OptimalPoint(calls, ws.idx)))
           /\ ws.history # <<>> =>
                  /\ ws.mode = "nearest"
                  /\ IsNearest(ws.value, ws.point, ws.history)
                  /\ Logged("set_initial_point", ws.point)
                  /\ args.gss = "GroundStateSolver" => solver_initial_point = ws.value

\* history {2: a, 3: b}, point 1: the guess is a, the parameters of point 2
C6_Witness ==
    /\ args.variational /\ args.bootstrap /\ args.extrapolator = "None"
    /\ args.gss = "GroundStateSolver"
    /\ Prefix(points, Min(3, Len(points))) = <<2, 3, 1>>
    /\ ws.idx = 2 /\ ws.mode = "nearest"
    /\ solver_initial_point = OptimalPoint(calls, 0)

\* C7 (crossover): with a variational solver, bootstrap on, an extrapolator
\* and window w = self._num_bootstrap, a point run on a history of n entries
\* gets a nearest-neighbour guess when 1 <= n <= w and the extrapolator's
\* guess, asked for that one point with the whole history, when n > w; for
\* w = 2 and distinct points the 3rd point uses nearest neighbour and the 4th
\* the extrapolator.
C7_Crossover ==
    (/\ args.variational /\ args.bootstrap /\ args.extrapolator # "None"
     /\ ws.mode # "none")
        => /\ ws.n = Len(ws.history)
           /\ (pc = "loop" =>
                  points_optparams =
                      DictSet(ws.history, ws.point, OptimalPoint(calls, ws.idx)))
           /\ (ws.n >= 1 /\ ws.n <= num_bootstrap) =>
                  /\ ws.mode = "nearest"
                  /\ IsNearest(ws.value, ws.point, ws.history)
                  /\ ~Logged("extrapolate", ws.point)
           /\ ws.n > num_bootstrap =>
                  /\ ws.mode = "extrapolate"
                  /\ ws.value = Extrapolated(calls, ws.idx)
                  /\ Logged("extrapolate", ws.point)
           /\ (num_bootstrap = 2 /\ Distinct(Prefix(points, ws.idx))) =>
                  /\ ws.idx = 2 => ws.mode = "nearest"
                  /\ ws.idx = 3 => ws.mode = "extrapolate"

\* window 2, three distinct points in the history: the 4th point is
\* extrapolated
C7_Witness ==
    /\ args.variational /\ args.bootstrap /\ args.extrapolator # "None"
    /\ num_bootstrap = 2 /\ ws.idx = 3 /\ ws.n = 3 /\ ws.mode = "extrapolate"
    /\ Distinct(Prefix(points, 3))

\* C8 (non-variational bypass): with a solver that is not variational, in
\* every state of every sample() call no warm-start lookup has run, the
\* sampler has not written the solver's initial point and the point history
\* is empty, whatever the bootstrap flag.
C8_NonVariationalBypass ==
    ~args.variational =>
        /\ ws.mode \in {"none", "off"}
        /\ points_optparams = <<>>
        /\ CountOps("set_initial_point") = 0
        /\ CountOps("extrapolate") = 0
        /\ solver_initial_point = NoneIP

C8_Witness ==
    /\ ~args.variational /\ args.bootstrap /\ args.extrapolator # "None"
    /\ calls = 2 /\ pc = "done" /\ Len(points) = 2 /\ ws.mode = "off"

\* C9 (no partial success): a sample() call that failed has returned no
\* result; when a solve raised, it was the solve of the point the loop was
\* at, no later point is run and the call does not go on to return; a call
\* that returned ran one solve for every point of the list and holds a result
\* for each of them.
C9_NoPartialSuccess ==
    /\ pc = "failed" => result = NoResult
    /\ (pc = "failed" /\ err = "SolveFailure") =>
           /\ i < Len(points)
           /\ CountOps("solve") = i + 1
           /\ log[Len(log)] = Event("solve", points[i + 1])
           /\ ~ENABLED RunSinglePoint
           /\ ~ENABLED Aggregate
    /\ result.returned =>
           /\ pc = "done"
           /\ i = Len(points)
           /\ CountOps("solve") = Len(points)
           /\ \A j \in 1..Len(points) : DictHas(result.raw_results, points[j])

\* the solve of the 3rd of 4 points raised
C9_Witness ==
    /\ pc = "failed" /\ err = "SolveFailure"
    /\ i = 2 /\ Len(points) = 4 /\ Len(raw_results) = 2

\* C10 as stated (driver validation at entry): a sample() call whose driver
\* is not one of the two supported molecule-driver kinds, or carries no
\* molecule, has failed without a solve and without a write of the
\* perturbations.
C10_OnlySupportedDriversRun ==
    (calls >= 1 /\ (problem.driver \notin SupportedDrivers \/ ~problem.molecule))
        => (pc = "failed" /\ CountOps("solve") = 0 /\ perturbations = <<>>)

\* the problems sample() rejects at its entry, lines 158-174
Rejected(prob) ==
    \/ prob.driver \notin (SupportedDrivers \cup {"DeprecatedBaseDriver"})
    \/ ~prob.molecule

\* C10 as amended: a sample() call whose driver is neither of the deprecated
\* base-driver kind nor one of the two supported molecule-driver kinds, or
\* whose driver carries no molecule, fails at once: no collaborator is
\* called, the perturbations are not written, nothing is returned and the
\* history, the solver and its initial point are left as they were.
C10_DriverValidation ==
    [][(calls' = calls + 1 /\ Rejected(problem'))
          => /\ pc' = "failed"
             /\ err' \in {"QiskitNatureError: driver", "QiskitNatureError: molecule"}
             /\ log' = <<>>
             /\ perturbations' = <<>>
             /\ result' = NoResult
             /\ points_optparams' = points_optparams
             /\ solver' = solver
             /\ solver_initial_point' = solver_initial_point]_vars

\* a second call with an unsupported driver, on a sampler holding history
C10_Witness ==
    /\ calls = 2 /\ pc = "failed" /\ err = "QiskitNatureError: driver"
    /\ problem.driver = "OtherDriver" /\ problem.molecule
    /\ points_optparams # <<>>

\* C11 (factory without converter): every sample() call on a sampler built
\* from a factory and no converter fails before _run_points: nothing is
\* returned, the factory is not asked for a solver, prepare_problem is not
\* run, the perturbations are not written and no point is evaluated; a call
\* whose driver passes the checks of lines 158-174 fails with the error of
\* lines 179-180.
C11_FactoryNeedsConverter ==
    (/\ args.gss = "MinimumEigensolverFactory" /\ ~args.qubit_converter
     /\ calls >= 1)
        => /\ pc = "failed"
           /\ result = NoResult
           /\ log = <<>>
           /\ perturbations = <<>>
           /\ raw_results = <<>> /\ points_optparams = <<>>
           /\ solver = "None"
           /\ ~Rejected(problem) => err = "QiskitNatureError: qubit converter"
           /\ Rejected(problem) =>
                  err \in {"QiskitNatureError: driver", "QiskitNatureError: molecule"}

\* a second call with a supported driver on a factory sampler without a
\* converter
C11_Witness ==
    /\ args.gss = "MinimumEigensolverFactory" /\ ~args.qubit_converter
    /\ calls = 2 /\ pc = "failed" /\ err = "QiskitNatureError: qubit converter"
    /\ problem.driver = "VibrationalStructureMoleculeDriver" /\ problem.molecule

\* the points of the solve calls of this sample() call, in call order
SolvedPoints ==
    LET solves == SelectSeq(log, LAMBDA e : e.op = "solve")
    IN [j \in 1..Len(solves) |-> solves[j].arg]

\* every solve call comes right after the geometry update for the same point
SolvesFollowGeometry ==
    LET steps == SelectSeq(log, LAMBDA e : e.op \in {"set_perturbations", "solve"})
    IN \A j \in 1..Len(steps) :
           steps[j].op = "solve" =>
               /\ j > 1
               /\ steps[j - 1] = Event("set_perturbations", steps[j].arg)

\* C12 (per-point order): while a sweep runs, the solve calls made so far
\* are one per point of the list run so far, in list order, duplicates
\* included; each solve began right after the perturbations were set to its
\* own point, and the perturbations hold exactly the point run last; a sweep
\* that returned made one solve call per element of the list.
C12_PerPointOrder ==
    /\ pc \in {"loop", "done"} =>
           /\ SolvedPoints = Prefix(points, i)
           /\ SolvesFollowGeometry
           /\ i >= 1 => perturbations = <<points[i]>>
           /\ \A m \in 1..Len(raw_results) :
                  raw_results[m].v.perturbations = <<raw_results[m].k>>
    /\ pc = "done" => (i = Len(points) /\ SolvedPoints = points)
    /\ (pc = "failed" /\ err = "SolveFailure") =>
           /\ SolvedPoints = Prefix(points, i + 1)
           /\ SolvesFollowGeometry
           /\ perturbations = <<points[i + 1]>>

\* an unsorted list with a repeated point, run to the end
C12_Witness ==
    /\ pc = "done" /\ points = <<3, 1, 3, 2>>
    /\ SolvedPoints = <<3, 1, 3, 2>> /\ perturbations = <<2>>

\* C13 (warm start honoured at solve time): whenever the warm start wrote a
\* parameter vector for a point and the point's solve ran, the solve began
\* with the solver's initial point equal to that vector, and the write was
\* the sampler's last step before the solve: no prepare_problem or
\* get_solver call came in between.
C13_WarmStartHonoured ==
    (WritesInitialPoint(ws) /\ pc \in {"loop", "done"}) =>
        /\ DictGet(raw_results, ws.point).idx = ws.idx
        /\ DictGet(raw_results, ws.point).initial_point = ws.value
        /\ log[Len(log)] = Event("solve", ws.point)
        /\ log[Len(log) - 1] = Event("set_initial_point", ws.point)

\* prepare_problem and get_solver calls of the per-point steps
PerPointOps(op) ==
    Cardinality({j \in 1..Len(log) : log[j].op = op /\ log[j].arg # 0})

\* C14 (factory materialised once): in every sample() call on a factory
\* that got past its entry checks, get_solver was called exactly once, right
\* after the one prepare_problem call of the entry and before the first
\* point, and no per-point step called it again.
C14_FactoryMaterialisedOnce ==
    (args.gss = "MinimumEigensolverFactory" /\ pc \in {"loop", "done"}) =>
        /\ Len(log) >= 2
        /\ log[1] = Event("prepare_problem", 0)
        /\ log[2] = Event("get_solver", 0)
        /\ CountOps("get_solver") = 1
        /\ PerPointOps("get_solver") = 0

\* the sample() call got past its entry checks into _run_points
InSweep ==
    \/ pc \in {"loop", "done"}
    \/ pc = "failed" /\ CountOps("set_perturbations") > 0

\* the history of a variational sweep that has evaluated i points
HistoryOfEvaluated ==
    LET evaluated == Prefix(points, i)
    IN /\ DictKeys(points_optparams) = FirstOccurrences(evaluated)
       /\ \A p \in PointValues :
              DictHas(points_optparams, p) <=> (\E j \in 1..i : points[j] = p)
       /\ \A j \in 1..Len(points_optparams) :
              LET e == points_optparams[j]
              IN /\ e.v = OptimalPoint(calls, LastIndex(evaluated, e.k) - 1)
                 /\ e.v = DictGet(raw_results, e.k).optimal_point

\* C15 (point-history invariant): in every state of a sweep with a
\* variational solver the keys of the history are the points evaluated so
\* far in this sweep, each with the optimal parameters its most recent
\* evaluation reported; and no step of a sample() call removes a key.
C15_PointHistory ==
    /\ []((IsVariational(solver, args.variational) /\ InSweep) => HistoryOfEvaluated)
    /\ [][(calls' = calls /\ IsVariational(solver, args.variational)) =>
              \A p \in PointValues :
                  DictHas(points_optparams, p) => DictHas(points_optparams', p)]_vars

\* point 2 evaluated twice: one key, holding the second evaluation's optimum
C15_Witness ==
    /\ IsVariational(solver, args.variational) /\ pc = "loop" /\ i = 3
    /\ Prefix(points, 3) = <<2, 1, 2>>
    /\ DictKeys(points_optparams) = <<2, 1>>
    /\ points_optparams[1].v = OptimalPoint(calls, 2)

\* a pre-bound variational solver
PreBoundVariational == args.gss = "GroundStateSolver" /\ args.variational

\* C16 (sweep start point): with a pre-bound variational solver, every
\* sample() call that gets into its sweep starts the loop with the solver's
\* initial point equal to the one the solver carried at construction,
\* whatever an earlier sweep left in that field, and the first point's solve
\* begins with it.
C16_SweepStartPoint ==
    /\ [](PreBoundVariational =>
            /\ pc \notin {"new", "ctor_failed"} =>
                   initial_point = ConfiguredIP(args.variational)
            /\ (pc = "loop" /\ i = 0) =>
                   solver_initial_point = ConfiguredIP(args.variational)
            /\ (pc \in {"loop", "done"} /\ i >= 1) =>
                   /\ raw_results[1].k = points[1]
                   /\ (\A j \in 2..i : points[j] # points[1]) =>
                          raw_results[1].v.initial_point = ConfiguredIP(args.variational)
            /\ (ws.mode # "none" /\ ws.idx = 0) =>
                   /\ ~WritesInitialPoint(ws)
                   /\ i = 0 => solver_initial_point = ConfiguredIP(args.variational))
    /\ [][(PreBoundVariational /\ calls' = calls + 1 /\ pc' = "loop") =>
              solver_initial_point' = ConfiguredIP(args.variational)]_vars

\* the first point of a second sweep has been solved from the configured
\* initial point although the first sweep left bootstrapped parameters in
\* the solver
C16_Witness ==
    /\ PreBoundVariational /\ args.bootstrap
    /\ calls = 2 /\ clobbered /\ pc = "loop" /\ i = 1
    /\ raw_results[1].v.initial_point = UserIP
    /\ solver_initial_point = UserIP

\* C17 (bootstrap disabled): with a variational solver and bootstrap off no
\* per-point step of the sampler looks up a neighbour, calls the
\* extrapolator or writes the solver's initial point, whatever the size of
\* the history: every solve begins with an initial point that is no
\* warm-start vector (with a pre-bound solver, the configured one); the
\* history still records the optimal parameters of every evaluated point.
C17_BootstrapDisabled ==
    (args.variational /\ ~args.bootstrap) =>
        /\ ws.mode \in {"none", "off"}
        /\ CountOps("extrapolate") = 0
        /\ PerPointOps("set_initial_point") = 0
        /\ solver_initial_point.kind \in {"None", "user"}
        /\ (args.gss = "GroundStateSolver" /\ pc \notin {"new", "ctor_failed"}) =>
               solver_initial_point = UserIP
        /\ \A m \in 1..Len(raw_results) :
               raw_results[m].v.initial_point.kind \in {"None", "user"}
        /\ (IsVariational(solver, args.variational) /\ InSweep) => HistoryOfEvaluated

\* bootstrap off, window 2: the 4th point ran on a history of 3 entries
\* without a guess, and its optimum was recorded
C17_Witness ==
    /\ args.variational /\ ~args.bootstrap
    /\ args.extrapolator = "WindowExtrapolator" /\ num_bootstrap = 2
    /\ pc = "loop" /\ i = 4 /\ ws.mode = "off" /\ ws.idx = 3
    /\ Len(ws.history) = 3 /\ Len(points_optparams) = 3
    /\ DictGet(points_optparams, points[4]) = OptimalPoint(calls, 3)

\* the keys of seq at the smallest distance from point
NearestKeys(point, seq) ==
    {seq[j] : j \in {m \in 1..Len(seq) :
                        \A n \in 1..Len(seq) :
                            Abs(point - seq[m]) <= Abs(point - seq[n])}}

\* the position in seq of the first member of S
FirstOf(S, seq) ==
    CHOOSE j \in 1..Len(seq) : seq[j] \in S /\ \A m \in 1..(j - 1) : seq[m] \notin S

\* C18 (nearest-neighbour tie-break): a nearest-neighbour guess is the
\* parameter vector, from its most recent evaluation, of the nearest key
\* that was evaluated first in this sweep (a point evaluated again keeps the
\* place of its first evaluation), whether that key is the smaller or the
\* larger of the keys at the smallest distance.
C18_TieBreak ==
    ws.mode = "nearest" =>
        LET evaluated == Prefix(points, ws.idx)
            keys == FirstOccurrences(evaluated)
            chosen == keys[FirstOf(NearestKeys(ws.point, keys), keys)]
        IN /\ DictKeys(ws.history) = keys
           /\ ws.value = OptimalPoint(calls, LastIndex(evaluated, chosen) - 1)
           /\ ws.value = DictGet(ws.history, chosen)

\* points 3, 1, 3 evaluated, point 2 queried: keys 3 and 1 tie, the guess
\* is that of key 3, from its second evaluation
C18_Witness ==
    /\ Prefix(points, Min(4, Len(points))) = <<3, 1, 3, 2>>
    /\ ws.idx = 3 /\ ws.mode = "nearest"
    /\ DictKeys(ws.history) = <<3, 1>>
    /\ ws.value = OptimalPoint(calls, 2)

\* C19 (default window): a constructor call with an extrapolator and
\* num_bootstrap = None succeeds and leaves self._num_bootstrap = 2; with a
\* variational solver and bootstrap on, a point run on a history of 1 or 2
\* entries gets a nearest neighbour's parameters and a point run on a
\* history of 3 or more entries gets the extrapolator's.
C19_DefaultWindow ==
    (args.extrapolator # "None" /\ args.num_bootstrap = NoneNB /\ pc # "new") =>
        /\ pc # "ctor_failed"
        /\ num_bootstrap = 2
        /\ (args.variational /\ args.bootstrap /\ ws.mode # "none") =>
               /\ ws.n = Len(ws.history)
               /\ ws.n \in {1, 2} =>
                      /\ ws.mode = "nearest"
                      /\ IsNearest(ws.value, ws.point, ws.history)
                      /\ ~Logged("extrapolate", ws.point)
               /\ ws.n >= 3 =>
                      /\ ws.mode = "extrapolate"
                      /\ ws.value = Extrapolated(calls, ws.idx)
                      /\ Logged("extrapolate", ws.point)

\* an Extrapolator that is no WindowExtrapolator, no explicit window: the
\* 4th point ran on 3 history entries and was extrapolated
C19_Witness ==
    /\ args.extrapolator = "Extrapolator" /\ args.num_bootstrap = NoneNB
    /\ args.variational /\ args.bootstrap
    /\ pc = "loop" /\ i = 4 /\ ws.idx = 3 /\ ws.n = 3 /\ ws.mode = "extrapolate"
    /\ window = NoneNB

\* prepare_problem has run on the mapping of the problem of this call
PreparedMapping ==
    /\ args.gss = "MinimumEigensolverFactory" /\ args.qubit_converter
    /\ calls >= 1 /\ ~Rejected(problem) /\ problem.ops = "dict"

\* the entries of a mapping other than the one named name
OtherEntries(q, name) == SelectSeq(q, LAMBDA e : e.k # name)

\* C20 (Problem Adapter on a mapping): the prepare_problem call of the
\* entry of sample() raises exactly when the mapping has no main entry or
\* its main entry is None; after it the mapping holds every other entry as
\* built and no main entry; when the problem hands out the same mapping
\* object again, the prepare_problem call of the first point raises and the
\* sweep ends there without a solve, and when it builds a new mapping each
\* time no per-point prepare_problem call raises.
C20_PrepareOnMapping ==
    PreparedMapping =>
        /\ (pc = "failed" /\ log = <<Event("prepare_problem", 0)>>)
               <=> problem.main \in {"None", "absent"}
        /\ log = <<Event("prepare_problem", 0)>> => err = "ValueError"
        /\ second_q_ops = OtherEntries(BuildSecondQOps(problem), MainPropertyName)
        /\ Len(second_q_ops) = Len(AuxNames)
        /\ ~DictHas(second_q_ops, MainPropertyName)
        /\ (problem.main = "op" /\ problem.shared) =>
               /\ pc \in {"loop", "done"} => i = 0
               /\ pc = "done" => points = <<>>
               /\ pc = "failed" =>
                      /\ err = "ValueError" /\ i = 0 /\ CountOps("solve") = 0
                      /\ log[Len(log)] = Event("prepare_problem", points[1])
        /\ (problem.main = "op" /\ ~problem.shared) =>
               /\ err # "ValueError"
               /\ pc \in {"loop", "done"} =>
                      /\ PerPointOps("prepare_problem") = i
                      /\ CountOps("solve") = i

\* the mapping is handed out a second time at the first point: its main
\* entry is gone and prepare_problem raises
C20_Witness ==
    /\ PreparedMapping /\ problem.main = "op" /\ problem.shared
    /\ pc = "failed" /\ err = "ValueError" /\ i = 0
    /\ log[Len(log)] = Event("prepare_problem", points[1])
    /\ perturbations = <<points[1]>>
    /\ DictKeys(second_q_ops) = AuxNames

====
